---- MODULE Spec2Model ----
(***************************************************************************)
(* A model of the nonblocking-channel crate (src/src/lib.rs): a bounded    *)
(* SPSC ring shared by a NonBlockingSender and a NonBlockingReceiver, the  *)
(* shared is_closed flag written by both Drop impls, and the               *)
(* MicroBlockingSender adapter (Arc<Mutex<NonBlockingSender>>).            *)
(*                                                                         *)
(* Every atomic access of the code is one step: the SeqCst load of         *)
(* is_closed and the push / pop on the ring are separate steps of try_send *)
(* and try_recv, and the adapter's lock acquisition and release are steps  *)
(* of their own.                                                           *)
(***************************************************************************)
EXTENDS Integers, Sequences, FiniteSets, TLC

\* ---- bounds of the model ----
MaxCap == 2        \* capacities 1..MaxCap are explored
MaxMsgs == 3       \* number of try_send calls in a behaviour
MaxRecvs == 3      \* number of try_recv calls in a behaviour
MaxClones == 2     \* number of MicroBlockingSender handles ever created

\* ---- handles ----
RawId == 0                     \* the NonBlockingSender returned by nonblocking_channel
CloneIds == 1..MaxClones       \* MicroBlockingSender handles
SenderIds == {RawId} \cup CloneIds
NoHolder == -1                 \* the Mutex is free
NoMsg == 0                     \* an uninitialised ring slot / no payload

VARIABLES
    cap,        \* capacity.get(), fixed at creation
    buf,        \* the ring's storage, slot index -> message
    head,       \* the ring's consumer index, modulo 2 * cap
    tail,       \* the ring's producer index, modulo 2 * cap
    is_closed,  \* the shared AtomicBool
    lock,       \* holder of the adapter's Mutex, or NoHolder
    pc,         \* position of each sender handle
    msg,        \* the message argument of each handle's current try_send
    res,        \* the SendResult of each handle's latest try_send
    late,       \* the receiver was already dropped when the handle's call started
    sawDisc,    \* the handle has had a try_send return Disconnected
    rpc,        \* position of the receiver
    rlate,      \* the sender side was already dropped when try_recv started
    nextMsg,    \* the next fresh message
    nrecv,      \* try_recv calls started
    sendLog,    \* history: every decided try_send, in order
    recvLog,    \* history: every decided try_recv, in order
    subject,    \* a SendResult / RecvResult value held by a caller
    observed    \* what the caller's calls of its methods returned

vars == <<cap, buf, head, tail, is_closed, lock, pc, msg, res, late, sawDisc,
          rpc, rlate, nextMsg, nrecv, sendLog, recvLog, subject, observed>>

callerVars == <<subject, observed>>
ringVars == <<buf, head, tail>>
sendVars == <<pc, msg, res, late, sawDisc>>
recvVars == <<rpc, rlate, nrecv>>

\* ---- result types ----
SendOk == [tag |-> "Ok", val |-> NoMsg]
SendFull(m) == [tag |-> "Full", val |-> m]
SendDisconnected == [tag |-> "Disconnected", val |-> NoMsg]
NoResult == [tag |-> "None", val |-> NoMsg]

RecvOk(m) == [tag |-> "Ok", val |-> m]
RecvEmpty == [tag |-> "Empty", val |-> NoMsg]
RecvDisconnected == [tag |-> "Disconnected", val |-> NoMsg]

\* ---- the result types' methods ----
\* mutant: is_ok is "not disconnected" for SendResult as well
SendIsOk_NotDisconnected(r) == r.tag # "Disconnected"

\* SendResult::is_ok: matches!(self, Self::Ok)
SendIsOk(r) == r.tag = "Ok"

\* SendResult::is_disconnected: matches!(self, Self::Disconnected)
SendIsDisconnected(r) == r.tag = "Disconnected"

\* RecvResult::is_ok: matches!(self, Self::Ok(_) | Self::Empty)
RecvIsOk(r) == r.tag \in {"Ok", "Empty"}

\* RecvResult::is_disconnected: matches!(self, Self::Disconnected)
RecvIsDisconnected(r) == r.tag = "Disconnected"

\* what a call of unwrap does: return a value or panic
Returned(v) == [tag |-> "Returned", val |-> v]
Panicked == [tag |-> "Panicked", val |-> "none"]
NoOutcome == [tag |-> "NotCalled", val |-> "none"]
Unit == "unit"
Some(m) == [some |-> m]
None == "None"

\* mutant: unwrap panics on Full only
SendUnwrap_DisconnectedReturns(r) ==
    IF r.tag = "Full" THEN Panicked ELSE Returned(Unit)

\* SendResult::unwrap: Ok => return, Full(message) => panic!, Disconnected => panic!
SendUnwrap(r) ==
    IF r.tag = "Ok" THEN Returned(Unit)
    ELSE IF r.tag = "Full" THEN Panicked
    ELSE Panicked

\* RecvResult::unwrap: Ok(message) => Some(message), Empty => None,
\* Disconnected => panic!
RecvUnwrap(r) ==
    IF r.tag = "Ok" THEN Returned(Some(r.val))
    ELSE IF r.tag = "Empty" THEN Returned(None)
    ELSE Panicked

\* ---- the ring (HeapRb::new(capacity).split()) ----
\* ringbuf keeps head and tail modulo 2 * capacity so that a full ring
\* (distance = capacity) differs from an empty one (distance = 0).
OccupiedLen(h, t, c) == (t + 2 * c - h) % (2 * c)

\* mutant: the fullness test is off by one
IsFull_OffByOne(h, t, c) == OccupiedLen(h, t, c) > c

IsFull(h, t, c) == OccupiedLen(h, t, c) = c

\* mutant: a ring holding a single message is taken for empty
IsEmpty_OffByOne(h, t) == (t + 2 * cap - h) % (2 * cap) <= 1

IsEmpty(h, t) == h = t

\* mutant: the indices wrap at the capacity instead of twice the capacity
Advance_ModCap(i, c) == (i + 1) % c

Advance(i, c) == (i + 1) % (2 * c)

\* the messages held by the ring, oldest first
RingContents ==
    [i \in 1..OccupiedLen(head, tail, cap) |-> buf[(head + i - 1) % cap]]

\* mutant: the slot is chosen by the fill level instead of the producer index
Push_SlotByLen(m) ==
    /\ buf' = [buf EXCEPT ![OccupiedLen(head, tail, cap) % cap] = m]
    /\ tail' = Advance(tail, cap)
    /\ head' = head

\* Producer::push on a ring that is not full
Push(m) ==
    /\ buf' = [buf EXCEPT ![tail % cap] = m]
    /\ tail' = Advance(tail, cap)
    /\ head' = head

\* mutant: the slot is read but the consumer index does not move
Pop_NoAdvance ==
    /\ buf' = [buf EXCEPT ![head % cap] = NoMsg]
    /\ head' = head
    /\ tail' = tail

\* Consumer::pop on a ring that is not empty
Pop ==
    /\ buf' = [buf EXCEPT ![head % cap] = NoMsg]
    /\ head' = Advance(head, cap)
    /\ tail' = tail

\* ---- handle lifetime ----
IsAdapter == pc[RawId] = "moved"

LiveClones == {h \in CloneIds : pc[h] \notin {"none", "dropped"}}

ReceiverDropped == rpc = "dropped"

\* the raw sender was dropped, or the adapter's last clone was
SenderSideDropped ==
    \/ pc[RawId] = "dropped"
    \/ IsAdapter /\ LiveClones = {}

\* a history entry: the call's argument, its result, whether the other side
\* was already dropped when the call started and, for a send, whether some
\* try_recv had been decided before it
SendEntry(h, r) ==
    [msg |-> msg[h], tag |-> r.tag, val |-> r.val, late |-> late[h],
     afterRecv |-> recvLog # <<>>]

RecvEntry(r) ==
    [tag |-> r.tag, val |-> r.val, late |-> rlate]

\* the send history keeps the first MaxMsgs decided calls
Record(lg, entry) == IF Len(lg) < MaxMsgs THEN Append(lg, entry) ELSE lg

\* ---- nonblocking_channel ----
ChannelInit ==
    /\ cap \in 1..MaxCap
    /\ buf = [i \in 0..(cap - 1) |-> NoMsg]
    /\ head = 0
    /\ tail = 0
    /\ is_closed = FALSE
    /\ lock = NoHolder
    /\ pc = [h \in SenderIds |-> IF h = RawId THEN "idle" ELSE "none"]
    /\ msg = [h \in SenderIds |-> NoMsg]
    /\ res = [h \in SenderIds |-> NoResult]
    /\ late = [h \in SenderIds |-> FALSE]
    /\ sawDisc = [h \in SenderIds |-> FALSE]
    /\ rpc = "idle"
    /\ rlate = FALSE
    /\ nextMsg = 1
    /\ nrecv = 0
    /\ sendLog = <<>>
    /\ recvLog = <<>>

\* no result value is being examined by a caller
NoSubject == [kind |-> "none", r |-> NoResult]
NoObserved ==
    [called |-> {}, is_ok |-> FALSE, is_disconnected |-> FALSE,
     unwrap |-> NoOutcome]

Init ==
    /\ ChannelInit
    /\ subject = NoSubject
    /\ observed = NoObserved

\* ---- NonBlockingSender::try_send / MicroBlockingSender::try_send ----
\* a handle calls try_send(message); an adapter clone first has to lock
SendStart(h) ==
    /\ pc[h] = "idle"
    /\ nextMsg <= MaxMsgs
    /\ msg' = [msg EXCEPT ![h] = nextMsg]
    /\ nextMsg' = nextMsg + 1
    /\ late' = [late EXCEPT ![h] = ReceiverDropped]
    /\ pc' = [pc EXCEPT ![h] = IF h = RawId THEN "entered" ELSE "waiting"]
    /\ UNCHANGED <<cap, callerVars, ringVars, is_closed, lock, res, sawDisc, recvVars,
                   sendLog, recvLog>>

\* mutant: the wrapped sender is reached without waiting for the mutex
AdapterLock_NoExclusion(h) ==
    /\ h \in CloneIds
    /\ pc[h] = "waiting"
    /\ lock' = h
    /\ pc' = [pc EXCEPT ![h] = "entered"]
    /\ UNCHANGED <<cap, callerVars, ringVars, is_closed, msg, res, late,
                   sawDisc, recvVars, nextMsg, sendLog, recvLog>>

\* self.inner.lock().unwrap()
AdapterLock(h) ==
    /\ h \in CloneIds
    /\ pc[h] = "waiting"
    /\ lock = NoHolder
    /\ lock' = h
    /\ pc' = [pc EXCEPT ![h] = "entered"]
    /\ UNCHANGED <<cap, callerVars, ringVars, is_closed, msg, res, late, sawDisc, recvVars,
                   nextMsg, sendLog, recvLog>>

\* mutant: try_send pushes without looking at the flag
SenderLoad_IgnoresFlag(h) ==
    /\ pc[h] = "entered"
    /\ pc' = [pc EXCEPT ![h] = "loaded"]
    /\ UNCHANGED <<cap, callerVars, ringVars, is_closed, lock, msg, res, late,
                   sawDisc, recvVars, nextMsg, sendLog, recvLog>>

\* if self.is_closed.load(Ordering::SeqCst) { SendResult::Disconnected }
SenderLoad(h) ==
    /\ pc[h] = "entered"
    /\ IF is_closed
       THEN /\ res' = [res EXCEPT ![h] = SendDisconnected]
            /\ pc' = [pc EXCEPT ![h] = "ret"]
            /\ sawDisc' = [sawDisc EXCEPT ![h] = TRUE]
            /\ sendLog' = Record(sendLog, SendEntry(h, SendDisconnected))
       ELSE /\ pc' = [pc EXCEPT ![h] = "loaded"]
            /\ UNCHANGED <<res, sawDisc, sendLog>>
    /\ UNCHANGED <<cap, callerVars, ringVars, is_closed, lock, msg, late, recvVars,
                   nextMsg, recvLog>>

\* mutant: a rejected message is reported Full but written all the same
SenderPush_FullStillWrites(h) ==
    /\ pc[h] = "loaded"
    /\ IF IsFull(head, tail, cap)
       THEN /\ res' = [res EXCEPT ![h] = SendFull(msg[h])]
            /\ sendLog' = Record(sendLog, SendEntry(h, SendFull(msg[h])))
            /\ buf' = [buf EXCEPT ![tail % cap] = msg[h]]
            /\ UNCHANGED <<head, tail>>
       ELSE /\ Push(msg[h])
            /\ res' = [res EXCEPT ![h] = SendOk]
            /\ sendLog' = Record(sendLog, SendEntry(h, SendOk))
    /\ pc' = [pc EXCEPT ![h] = "ret"]
    /\ UNCHANGED <<cap, callerVars, is_closed, lock, msg, late, sawDisc, recvVars,
                   nextMsg, recvLog>>

\* let res = self.inner.push(message); Err(message) => Full(message), else Ok
SenderPush(h) ==
    /\ pc[h] = "loaded"
    /\ IF IsFull(head, tail, cap)
       THEN /\ res' = [res EXCEPT ![h] = SendFull(msg[h])]
            /\ sendLog' = Record(sendLog, SendEntry(h, SendFull(msg[h])))
            /\ UNCHANGED ringVars
       ELSE /\ Push(msg[h])
            /\ res' = [res EXCEPT ![h] = SendOk]
            /\ sendLog' = Record(sendLog, SendEntry(h, SendOk))
    /\ pc' = [pc EXCEPT ![h] = "ret"]
    /\ UNCHANGED <<cap, callerVars, is_closed, lock, msg, late, sawDisc, recvVars,
                   nextMsg, recvLog>>

\* the raw sender's try_send returns its result to the caller
SendReturn ==
    /\ pc[RawId] = "ret"
    /\ pc' = [pc EXCEPT ![RawId] = "idle"]
    /\ msg' = [msg EXCEPT ![RawId] = NoMsg]
    /\ res' = [res EXCEPT ![RawId] = NoResult]
    /\ late' = [late EXCEPT ![RawId] = FALSE]
    /\ UNCHANGED <<cap, callerVars, ringVars, is_closed, lock, sawDisc, recvVars, nextMsg,
                   sendLog, recvLog>>

\* mutant: the guard is leaked, the mutex stays locked after the call
AdapterUnlock_KeepsLock(h) ==
    /\ h \in CloneIds
    /\ pc[h] = "ret"
    /\ lock = h
    /\ lock' = lock
    /\ pc' = [pc EXCEPT ![h] = "idle"]
    /\ msg' = [msg EXCEPT ![h] = NoMsg]
    /\ res' = [res EXCEPT ![h] = NoResult]
    /\ late' = [late EXCEPT ![h] = FALSE]
    /\ UNCHANGED <<cap, callerVars, ringVars, is_closed, sawDisc, recvVars,
                   nextMsg, sendLog, recvLog>>

\* the MutexGuard temporary is dropped and the adapter's try_send returns
AdapterUnlock(h) ==
    /\ h \in CloneIds
    /\ pc[h] = "ret"
    /\ lock = h
    /\ lock' = NoHolder
    /\ pc' = [pc EXCEPT ![h] = "idle"]
    /\ msg' = [msg EXCEPT ![h] = NoMsg]
    /\ res' = [res EXCEPT ![h] = NoResult]
    /\ late' = [late EXCEPT ![h] = FALSE]
    /\ UNCHANGED <<cap, callerVars, ringVars, is_closed, sawDisc, recvVars, nextMsg,
                   sendLog, recvLog>>

\* ---- NonBlockingSender::mpsc ----
\* consumes the sender: Arc::new(Mutex::new(self)) is the first clone
Mpsc ==
    /\ pc[RawId] = "idle"
    /\ pc' = [pc EXCEPT ![RawId] = "moved", ![1] = "idle"]
    /\ sawDisc' = [sawDisc EXCEPT ![RawId] = FALSE]
    /\ UNCHANGED <<cap, callerVars, ringVars, is_closed, lock, msg, res, late, recvVars,
                   nextMsg, sendLog, recvLog>>

\* ---- Clone for MicroBlockingSender ----
\* the new handle takes the lowest identity never used
FreshClone ==
    CHOOSE n \in CloneIds :
        /\ pc[n] = "none"
        /\ \A k \in CloneIds : pc[k] = "none" => n <= k

Clone(h) ==
    /\ h \in LiveClones
    /\ \E n \in CloneIds : pc[n] = "none"
    /\ pc' = [pc EXCEPT ![FreshClone] = "idle"]
    /\ UNCHANGED <<cap, callerVars, ringVars, is_closed, lock, msg, res, late, sawDisc,
                   recvVars, nextMsg, sendLog, recvLog>>

\* mutant: the sender's drop does not cascade
DropSender_NoClose ==
    /\ pc[RawId] = "idle"
    /\ pc' = [pc EXCEPT ![RawId] = "dropped"]
    /\ sawDisc' = [sawDisc EXCEPT ![RawId] = FALSE]
    /\ is_closed' = is_closed
    /\ UNCHANGED <<cap, callerVars, ringVars, lock, msg, res, late, recvVars,
                   nextMsg, sendLog, recvLog>>

\* ---- Drop for NonBlockingSender ----
DropSender ==
    /\ pc[RawId] = "idle"
    /\ pc' = [pc EXCEPT ![RawId] = "dropped"]
    /\ sawDisc' = [sawDisc EXCEPT ![RawId] = FALSE]
    /\ is_closed' = TRUE
    /\ UNCHANGED <<cap, callerVars, ringVars, lock, msg, res, late, recvVars, nextMsg,
                   sendLog, recvLog>>

\* mutant: every clone's drop stores "I was the last one" into the flag
DropClone_StoresLast(h) ==
    /\ h \in CloneIds
    /\ pc[h] = "idle"
    /\ pc' = [pc EXCEPT ![h] = "dropped"]
    /\ sawDisc' = [sawDisc EXCEPT ![h] = FALSE]
    /\ is_closed' = (LiveClones = {h})
    /\ UNCHANGED <<cap, callerVars, ringVars, lock, msg, res, late, recvVars, nextMsg,
                   sendLog, recvLog>>

\* mutant: the wrapped sender is dropped with every clone (no shared Arc)
DropClone_EveryDropCloses(h) ==
    /\ h \in CloneIds
    /\ pc[h] = "idle"
    /\ pc' = [pc EXCEPT ![h] = "dropped"]
    /\ sawDisc' = [sawDisc EXCEPT ![h] = FALSE]
    /\ is_closed' = TRUE
    /\ UNCHANGED <<cap, callerVars, ringVars, lock, msg, res, late, recvVars, nextMsg,
                   sendLog, recvLog>>

\* dropping one Arc: the wrapped NonBlockingSender is dropped with the last
DropClone(h) ==
    /\ h \in CloneIds
    /\ pc[h] = "idle"
    /\ pc' = [pc EXCEPT ![h] = "dropped"]
    /\ sawDisc' = [sawDisc EXCEPT ![h] = FALSE]
    /\ is_closed' = IF LiveClones = {h} THEN TRUE ELSE is_closed
    /\ UNCHANGED <<cap, callerVars, ringVars, lock, msg, res, late, recvVars, nextMsg,
                   sendLog, recvLog>>

\* ---- NonBlockingReceiver::try_recv ----
RecvStart ==
    /\ rpc = "idle"
    /\ nrecv < MaxRecvs
    /\ nrecv' = nrecv + 1
    /\ rlate' = SenderSideDropped
    /\ rpc' = "entered"
    /\ UNCHANGED <<cap, callerVars, ringVars, is_closed, lock, sendVars, nextMsg,
                   sendLog, recvLog>>

\* mutant: pending messages are drained before the flag is honoured
RecvLoad_DrainFirst ==
    /\ rpc = "entered"
    /\ IF is_closed /\ IsEmpty(head, tail)
       THEN /\ rpc' = "idle"
            /\ rlate' = FALSE
            /\ recvLog' = Append(recvLog, RecvEntry(RecvDisconnected))
       ELSE /\ rpc' = "loaded"
            /\ UNCHANGED <<rlate, recvLog>>
    /\ UNCHANGED <<cap, callerVars, ringVars, is_closed, lock, sendVars, nextMsg, nrecv,
                   sendLog>>

\* mutant: try_recv takes the adapter's mutex before it reads the flag
RecvLoad_NeedsLock ==
    /\ rpc = "entered"
    /\ lock = NoHolder
    /\ IF is_closed
       THEN /\ rpc' = "idle"
            /\ rlate' = FALSE
            /\ recvLog' = Append(recvLog, RecvEntry(RecvDisconnected))
       ELSE /\ rpc' = "loaded"
            /\ UNCHANGED <<rlate, recvLog>>
    /\ UNCHANGED <<cap, callerVars, ringVars, is_closed, lock, sendVars, nextMsg, nrecv,
                   sendLog>>

\* if self.is_closed.load(Ordering::SeqCst) { RecvResult::Disconnected }
RecvLoad ==
    /\ rpc = "entered"
    /\ IF is_closed
       THEN /\ rpc' = "idle"
            /\ rlate' = FALSE
            /\ recvLog' = Append(recvLog, RecvEntry(RecvDisconnected))
       ELSE /\ rpc' = "loaded"
            /\ UNCHANGED <<rlate, recvLog>>
    /\ UNCHANGED <<cap, callerVars, ringVars, is_closed, lock, sendVars, nextMsg, nrecv,
                   sendLog>>

\* let res = self.inner.pop(); Some(message) => Ok(message), else Empty
RecvPop ==
    /\ rpc = "loaded"
    /\ IF IsEmpty(head, tail)
       THEN /\ recvLog' = Append(recvLog, RecvEntry(RecvEmpty))
            /\ UNCHANGED ringVars
       ELSE /\ recvLog' = Append(recvLog, RecvEntry(RecvOk(buf[head % cap])))
            /\ Pop
    /\ rpc' = "idle"
    /\ rlate' = FALSE
    /\ UNCHANGED <<cap, callerVars, is_closed, lock, sendVars, nextMsg, nrecv, sendLog>>

\* mutant: the receiver's drop does not cascade
DropReceiver_NoClose ==
    /\ rpc = "idle"
    /\ rpc' = "dropped"
    /\ is_closed' = is_closed
    /\ UNCHANGED <<cap, callerVars, ringVars, lock, sendVars, rlate, nextMsg, nrecv,
                   sendLog, recvLog>>

\* ---- Drop for NonBlockingReceiver ----
DropReceiver ==
    /\ rpc = "idle"
    /\ rpc' = "dropped"
    /\ is_closed' = TRUE
    /\ UNCHANGED <<cap, callerVars, ringVars, lock, sendVars, rlate, nextMsg, nrecv,
                   sendLog, recvLog>>

\* ---- the system ----
Next ==
    \/ \E h \in SenderIds : SendStart(h)
    \/ \E h \in CloneIds : AdapterLock(h)
    \/ \E h \in SenderIds : SenderLoad(h)
    \/ \E h \in SenderIds : SenderPush(h)
    \/ SendReturn
    \/ \E h \in CloneIds : AdapterUnlock(h)
    \/ Mpsc
    \/ \E h \in CloneIds : Clone(h)
    \/ DropSender
    \/ \E h \in CloneIds : DropClone(h)
    \/ RecvStart
    \/ RecvLoad
    \/ RecvPop
    \/ DropReceiver

Spec == Init /\ [][Next]_vars

\* The receiver and the raw sender are threads of their own and run to the end
\* of a call they started; no adapter clone is assumed to make progress.
RecvSteps == RecvLoad \/ RecvPop
RawSendSteps == SenderLoad(RawId) \/ SenderPush(RawId) \/ SendReturn

FairSpec == Spec /\ WF_vars(RecvSteps) /\ WF_vars(RawSendSteps)

\* ---- callers that keep calling ----
\* a handle sends once more after the MaxMsgs fresh messages are used up: the
\* caller offers the last message again
SendAgain(h) ==
    /\ pc[h] = "idle"
    /\ nextMsg > MaxMsgs
    /\ msg' = [msg EXCEPT ![h] = MaxMsgs]
    /\ late' = [late EXCEPT ![h] = ReceiverDropped]
    /\ pc' = [pc EXCEPT ![h] = IF h = RawId THEN "entered" ELSE "waiting"]
    /\ UNCHANGED <<cap, callerVars, ringVars, is_closed, lock, res, sawDisc,
                   recvVars, nextMsg, sendLog, recvLog>>

\* the steps of one adapter clone inside MicroBlockingSender::try_send
AdapterSteps(h) ==
    AdapterLock(h) \/ SenderLoad(h) \/ SenderPush(h) \/ AdapterUnlock(h)

\* any number of try_send calls; each adapter clone is a thread that runs
\* whenever it can (weak fairness), the mutex promises no order of acquisition
RetryNext ==
    \/ Next
    \/ \E h \in SenderIds : SendAgain(h)

RetrySpec ==
    /\ Init
    /\ [][RetryNext]_vars
    /\ \A h \in CloneIds : WF_vars(AdapterSteps(h))

\* the receiver calls try_recv once more after its MaxRecvs counted calls, as
\* long as the ring holds something
RecvStartPending ==
    /\ rpc = "idle"
    /\ nrecv >= MaxRecvs
    /\ ~IsEmpty(head, tail)
    /\ rlate' = SenderSideDropped
    /\ rpc' = "entered"
    /\ UNCHANGED <<cap, callerVars, ringVars, is_closed, lock, sendVars,
                   nextMsg, nrecv, sendLog, recvLog>>

\* neither side is ever dropped and the receiver keeps calling try_recv
DrainNext ==
    \/ \E h \in SenderIds : SendStart(h)
    \/ \E h \in CloneIds : AdapterLock(h)
    \/ \E h \in SenderIds : SenderLoad(h)
    \/ \E h \in SenderIds : SenderPush(h)
    \/ SendReturn
    \/ \E h \in CloneIds : AdapterUnlock(h)
    \/ Mpsc
    \/ \E h \in CloneIds : Clone(h)
    \/ RecvStart
    \/ RecvStartPending
    \/ RecvLoad
    \/ RecvPop

ReceiverSteps == RecvStart \/ RecvStartPending \/ RecvLoad \/ RecvPop

DrainSpec == Init /\ [][DrainNext]_vars /\ WF_vars(ReceiverSteps)

\* ---- a caller examining one result value ----
\* every value of the two result types, with payloads 1..MaxMsgs
SendResults == {SendOk, SendDisconnected} \cup {SendFull(m) : m \in 1..MaxMsgs}
RecvResults == {RecvEmpty, RecvDisconnected} \cup {RecvOk(m) : m \in 1..MaxMsgs}
Subjects ==
    {[kind |-> "send", r |-> r] : r \in SendResults}
        \cup {[kind |-> "recv", r |-> r] : r \in RecvResults}

ResultInit ==
    /\ ChannelInit
    /\ subject \in Subjects
    /\ observed = NoObserved

channelVars ==
    <<cap, ringVars, is_closed, lock, sendVars, recvVars, nextMsg, sendLog,
      recvLog>>

CallIsOk ==
    /\ "is_ok" \notin observed.called
    /\ observed' = [observed EXCEPT
            !.called = @ \cup {"is_ok"},
            !.is_ok = IF subject.kind = "send" THEN SendIsOk(subject.r)
                      ELSE RecvIsOk(subject.r)]
    /\ UNCHANGED <<subject, channelVars>>

CallIsDisconnected ==
    /\ "is_disconnected" \notin observed.called
    /\ observed' = [observed EXCEPT
            !.called = @ \cup {"is_disconnected"},
            !.is_disconnected =
                IF subject.kind = "send" THEN SendIsDisconnected(subject.r)
                ELSE RecvIsDisconnected(subject.r)]
    /\ UNCHANGED <<subject, channelVars>>

CallUnwrap ==
    /\ "unwrap" \notin observed.called
    /\ observed' = [observed EXCEPT
            !.called = @ \cup {"unwrap"},
            !.unwrap = IF subject.kind = "send" THEN SendUnwrap(subject.r)
                       ELSE RecvUnwrap(subject.r)]
    /\ UNCHANGED <<subject, channelVars>>

ResultNext == CallIsOk \/ CallIsDisconnected \/ CallUnwrap

ResultSpec == ResultInit /\ [][ResultNext]_vars

TypeOK ==
    /\ cap \in 1..MaxCap
    /\ head \in 0..(2 * cap - 1)
    /\ tail \in 0..(2 * cap - 1)
    /\ OccupiedLen(head, tail, cap) <= cap
    /\ is_closed \in BOOLEAN
    /\ lock \in CloneIds \cup {NoHolder}
    /\ rpc \in {"idle", "entered", "loaded", "dropped"}
    /\ \A h \in SenderIds :
         pc[h] \in {"none", "idle", "waiting", "entered", "loaded", "ret",
                    "moved", "dropped"}

\* ---- histories ----
Range(q) == {q[i] : i \in 1..Len(q)}

IsPrefix(p, q) ==
    /\ Len(p) <= Len(q)
    /\ \A i \in 1..Len(p) : p[i] = q[i]

\* the messages whose try_send returned Ok, in the order of the calls
SentOk ==
    LET f[i \in 0..Len(sendLog)] ==
            IF i = 0 THEN <<>>
            ELSE IF sendLog[i].tag = "Ok" THEN Append(f[i - 1], sendLog[i].msg)
            ELSE f[i - 1]
    IN  f[Len(sendLog)]

\* the messages try_recv returned as Ok(message), in the order of the calls
Received ==
    LET f[i \in 0..Len(recvLog)] ==
            IF i = 0 THEN <<>>
            ELSE IF recvLog[i].tag = "Ok" THEN Append(f[i - 1], recvLog[i].val)
            ELSE f[i - 1]
    IN  f[Len(recvLog)]

NoHandleDropped ==
    /\ ~ReceiverDropped
    /\ \A h \in SenderIds : pc[h] # "dropped"

InFlight == {h \in SenderIds : pc[h] \in {"waiting", "entered", "loaded"}}

\* ---- C1 ----
\* C1: on a fresh channel of capacity N, with no receive performed and no
\* handle dropped, the first N try_send calls return Ok and the (N+1)-th
\* returns Full carrying exactly the message passed to it.
C1_FirstNOkThenFull ==
    (recvLog = <<>> /\ NoHandleDropped) =>
        \A i \in 1..Len(sendLog) :
            /\ i <= cap => sendLog[i].tag = "Ok"
            /\ i = cap + 1 =>
                 sendLog[i].tag = "Full" /\ sendLog[i].val = sendLog[i].msg

C1_Witness ==
    /\ recvLog = <<>>
    /\ NoHandleDropped
    /\ cap = 2
    /\ Len(sendLog) = cap + 1

\* ---- C2 ----
\* the channel was filled by N accepted sends and one rejected send, all of
\* them decided before any try_recv, and nothing has been sent since
FilledThenRejected ==
    /\ Len(sendLog) = cap + 1
    /\ \A i \in 1..cap : sendLog[i].tag = "Ok"
    /\ sendLog[cap + 1].tag = "Full"
    /\ \A i \in 1..(cap + 1) : ~sendLog[i].afterRecv

\* C2: after N accepted sends and one rejected send into a channel of capacity
\* N, with both sides alive, the next N try_recv calls return the N messages in
\* the order sent, the call after them returns Empty, and the rejected message
\* is never returned.
C2_DrainInOrderThenEmpty ==
    (FilledThenRejected /\ ~is_closed) =>
        \A j \in 1..Len(recvLog) :
            /\ j <= cap => recvLog[j] = [tag |-> "Ok", val |-> sendLog[j].msg,
                                         late |-> FALSE]
            /\ j = cap + 1 => recvLog[j].tag = "Empty"
            /\ recvLog[j].val # sendLog[cap + 1].msg

C2_Witness ==
    /\ FilledThenRejected
    /\ ~is_closed
    /\ cap = 2
    /\ Len(recvLog) = cap + 1

\* ---- C3 ----
\* C3: under every interleaving, the messages received are a prefix of the
\* messages sent successfully, in the same order (nothing is received twice,
\* out of order, or without having been sent).
C3_ReceivedPrefixOfSent == IsPrefix(Received, SentOk)

C3_Witness ==
    /\ Len(Received) >= 2
    /\ Len(SentOk) > Len(Received)
    /\ IsAdapter

\* ---- C4 ----
\* C4: a try_send that starts after the receiver was dropped returns
\* Disconnected, never reaches the push, and its message is not in the ring.
C4_SendAfterReceiverDrop ==
    /\ \A i \in 1..Len(sendLog) :
         sendLog[i].late =>
            /\ sendLog[i].tag = "Disconnected"
            /\ sendLog[i].msg \notin Range(RingContents)
    /\ \A h \in SenderIds :
         late[h] =>
            /\ pc[h] # "loaded"
            /\ msg[h] \notin Range(RingContents)
            /\ pc[h] = "ret" => res[h] = SendDisconnected

C4_Witness ==
    /\ IsAdapter
    /\ RingContents # <<>>
    /\ \E i \in 1..Len(sendLog) : sendLog[i].late
    /\ \E h \in CloneIds : late[h] /\ pc[h] = "ret"

\* ---- C5 ----
\* C5: a try_recv that starts after the sender side was dropped returns
\* Disconnected, also when unread messages remain in the ring, and never
\* reaches the pop.
C5_RecvAfterSenderDrop ==
    /\ \A j \in 1..Len(recvLog) :
         recvLog[j].late => recvLog[j] = [tag |-> "Disconnected",
                                          val |-> NoMsg, late |-> TRUE]
    /\ rlate => rpc # "loaded"

C5_Witness ==
    /\ RingContents # <<>>
    /\ ~ReceiverDropped
    /\ Len(recvLog) >= 2
    /\ recvLog[Len(recvLog)].late
    /\ recvLog[Len(recvLog) - 1].late

\* ---- C6 ----
\* C6: the close flag is false at creation and never goes back from true to
\* false, whatever operation runs.
C6_CloseFlagMonotonic ==
    /\ ~is_closed
    /\ [][is_closed => is_closed']_vars

C6_Witness ==
    /\ is_closed
    /\ ReceiverDropped
    /\ IsAdapter
    /\ \E h \in CloneIds : pc[h] = "dropped"
    /\ LiveClones # {}
    /\ \E i \in 1..Len(sendLog) : sendLog[i].tag = "Disconnected"

\* ---- C7 ----
\* C7: once a handle has had an operation return Disconnected, every later
\* operation on that handle returns Disconnected too.
C7_DisconnectedSticks ==
    /\ \A h \in SenderIds :
         sawDisc[h] =>
            /\ pc[h] # "loaded"
            /\ pc[h] = "ret" => res[h] = SendDisconnected
    /\ \A i, j \in 1..Len(recvLog) :
         (i < j /\ recvLog[i].tag = "Disconnected") =>
            recvLog[j].tag = "Disconnected"
    /\ (\E i \in 1..Len(recvLog) : recvLog[i].tag = "Disconnected") =>
            rpc # "loaded"

C7_Witness ==
    /\ pc[RawId] = "ret"
    /\ sawDisc[RawId]
    /\ RingContents # <<>>
    /\ Len(sendLog) >= 3
    /\ sendLog[Len(sendLog)].tag = "Disconnected"
    /\ sendLog[Len(sendLog) - 1].tag = "Disconnected"

\* ---- C8 ----
\* C8: for the adapter, mpsc(), clone() and the drop of a clone that is not the
\* last leave the flag alone and the drop of the last clone sets it: while the
\* receiver is alive the flag is true exactly when no clone is left, and while
\* a clone is left try_recv has never returned Disconnected.
C8_LastCloneCloses ==
    (IsAdapter /\ ~ReceiverDropped) =>
        /\ is_closed <=> LiveClones = {}
        /\ LiveClones # {} =>
             \A j \in 1..Len(recvLog) : recvLog[j].tag # "Disconnected"

C8_Witness ==
    /\ IsAdapter
    /\ ~ReceiverDropped
    /\ \E h \in CloneIds : pc[h] = "dropped"
    /\ Cardinality(LiveClones) = 1
    /\ recvLog # <<>>
    /\ rpc = "loaded"

\* ---- C9 ----
\* C9: with adapter clones sending in any interleaving against a receiving
\* receiver, while the channel is open: every decided attempt returned Ok or
\* Full and every attempt is decided or still in flight; the messages sent Ok
\* are exactly the messages received followed by the ring's contents; a
\* message rejected with Full is handed back and is neither in the ring nor
\* received.
C9_AdapterNoLossNoDup ==
    (IsAdapter /\ ~is_closed) =>
        /\ \A i \in 1..Len(sendLog) : sendLog[i].tag \in {"Ok", "Full"}
        /\ Len(sendLog) + Cardinality(InFlight) = nextMsg - 1
        /\ SentOk = Received \o RingContents
        /\ \A i \in 1..Len(sendLog) :
             sendLog[i].tag = "Full" =>
                /\ sendLog[i].val = sendLog[i].msg
                /\ sendLog[i].msg \notin Range(RingContents)
                /\ sendLog[i].msg \notin Range(Received)

C9_Witness ==
    /\ IsAdapter
    /\ ~is_closed
    /\ Cardinality(LiveClones) = 2
    /\ \E h \in CloneIds : lock = h /\ pc[h] = "ret" /\ res[h].tag = "Full"
    /\ \E h \in CloneIds : pc[h] = "waiting"
    /\ Received # <<>>

\* ---- C10 ----
\* C10: try_recv never touches the adapter's mutex and a started try_recv
\* returns by the receiver's own steps, whatever the adapter clones do (they
\* may stop while holding the mutex); a started try_send on the raw sender
\* returns by the sender's own steps, whatever the receiver does.
C10_NonBlocking ==
    /\ [][(rpc' # rpc) => (lock' = lock)]_vars
    /\ (rpc \in {"entered", "loaded"}) ~> (rpc = "idle")
    /\ (pc[RawId] \in {"entered", "loaded", "ret"}) ~> (pc[RawId] = "idle")

C10_Witness ==
    /\ rpc = "idle"
    /\ \E h \in CloneIds :
         /\ lock = h
         /\ pc[h] = "ret"
         /\ res[h].tag = "Ok"
         /\ msg[h] \in Range(Received)
\* ---- C11 ----
\* C11 as stated: for both result types is_ok is true exactly when the value
\* is not Disconnected, and is_ok is the negation of is_disconnected.
C11_IsOkIsNotDisconnected ==
    /\ "is_ok" \in observed.called =>
         observed.is_ok = (subject.r.tag # "Disconnected")
    /\ {"is_ok", "is_disconnected"} \subseteq observed.called =>
         observed.is_ok = ~observed.is_disconnected

\* C11 (amended): RecvResult::is_ok is true for Ok(message) and Empty and false
\* for Disconnected, and is the negation of RecvResult::is_disconnected;
\* SendResult::is_ok is true for Ok only, so for Full(message) both is_ok and
\* is_disconnected are false; is_disconnected is true exactly for Disconnected.
C11_IsOkPerType ==
    /\ "is_ok" \in observed.called =>
         observed.is_ok =
            IF subject.kind = "send" THEN subject.r.tag = "Ok"
            ELSE subject.r.tag \in {"Ok", "Empty"}
    /\ "is_disconnected" \in observed.called =>
         observed.is_disconnected = (subject.r.tag = "Disconnected")
    /\ {"is_ok", "is_disconnected"} \subseteq observed.called =>
         /\ subject.kind = "recv" => observed.is_ok = ~observed.is_disconnected
         /\ subject.kind = "send" =>
              (observed.is_ok = ~observed.is_disconnected
                  <=> subject.r.tag # "Full")

C11_Witness ==
    /\ subject.kind = "send"
    /\ subject.r.tag = "Full"
    /\ {"is_ok", "is_disconnected"} \subseteq observed.called

\* ---- C12 ----
\* C12 as stated: unwrap panics only when the value is Disconnected and
\* returns normally for every other value.
C12_UnwrapPanicsOnlyDisconnected ==
    "unwrap" \in observed.called =>
        (observed.unwrap = Panicked <=> subject.r.tag = "Disconnected")

\* C12 (amended): RecvResult::unwrap panics only for Disconnected and returns
\* the message for Ok(message) and nothing for Empty; SendResult::unwrap
\* returns normally only for Ok and panics for Full(message) and Disconnected.
C12_UnwrapPerType ==
    "unwrap" \in observed.called =>
        IF subject.kind = "recv"
        THEN /\ observed.unwrap = Panicked <=> subject.r.tag = "Disconnected"
             /\ subject.r.tag = "Ok" =>
                  observed.unwrap = Returned(Some(subject.r.val))
             /\ subject.r.tag = "Empty" => observed.unwrap = Returned(None)
        ELSE /\ observed.unwrap = Panicked <=>
                  subject.r.tag \in {"Full", "Disconnected"}
             /\ subject.r.tag = "Ok" => observed.unwrap = Returned(Unit)

C12_Witness ==
    /\ subject.kind = "send"
    /\ subject.r.tag = "Full"
    /\ observed.unwrap = Panicked
\* ---- C13 ----
\* C13: in every reachable state the close flag is true exactly when a side
\* has been destroyed (the receiver, or the raw sender / the last adapter
\* clone), and only a drop ever changes it.
C13_ClosedIffASideDropped ==
    /\ [](is_closed <=> (ReceiverDropped \/ SenderSideDropped))
    /\ [][is_closed' # is_closed =>
            \/ rpc # "dropped" /\ rpc' = "dropped"
            \/ \E h \in SenderIds : pc[h] = "idle" /\ pc'[h] = "dropped"]_vars

C13_Witness ==
    /\ is_closed
    /\ pc[RawId] = "dropped"
    /\ ~ReceiverDropped
    /\ RingContents # <<>>

\* ---- C14 ----
InsideWrapped == {h \in CloneIds : pc[h] \in {"entered", "loaded", "ret"}}

\* C14: at most one adapter clone is inside the wrapped sender's try_send, and
\* it is the holder of the mutex; the result the clone is about to return is
\* the one the wrapped try_send produced for the clone's message.
C14_AdapterMutualExclusion ==
    /\ Cardinality(InsideWrapped) <= 1
    /\ \A h \in CloneIds : h \in InsideWrapped <=> lock = h
    /\ \A h \in CloneIds :
         pc[h] = "ret" =>
            /\ sendLog # <<>>
            /\ sendLog[Len(sendLog)].msg = msg[h]
            /\ res[h] = [tag |-> sendLog[Len(sendLog)].tag,
                         val |-> sendLog[Len(sendLog)].val]

C14_Witness ==
    /\ Cardinality(LiveClones) = 2
    /\ \E h \in CloneIds : pc[h] = "loaded"
    /\ \E h \in CloneIds : pc[h] = "waiting"

\* ---- C15 ----
PushStepOf(h) == pc[h] = "loaded" /\ pc'[h] = "ret"
PopStep == rpc = "loaded" /\ rpc' = "idle"

\* C15: after any earlier sends and receives, the insertion of try_send
\* appends exactly its message and returns Ok when the ring holds fewer than
\* cap messages, and returns Full(message) leaving the ring alone when it
\* holds cap; the removal of try_recv returns and removes exactly the head
\* when the ring is not empty, and returns Empty when it is.
C15_PushPopByFillLevel ==
    [][/\ \A h \in SenderIds :
            PushStepOf(h) =>
                IF Len(RingContents) < cap
                THEN /\ RingContents' = Append(RingContents, msg[h])
                     /\ res'[h] = SendOk
                ELSE /\ RingContents' = RingContents
                     /\ res'[h] = SendFull(msg[h])
       /\ PopStep =>
            IF RingContents # <<>>
            THEN /\ RingContents' = Tail(RingContents)
                 /\ recvLog' = Append(recvLog, RecvEntry(RecvOk(Head(RingContents))))
            ELSE /\ RingContents' = RingContents
                 /\ recvLog' = Append(recvLog, RecvEntry(RecvEmpty))]_vars

\* with capacity 1 both indices have gone round once after two messages
C15_Witness ==
    /\ cap = 1
    /\ Len(SentOk) = 3
    /\ Len(Received) = 3
    /\ ~is_closed

\* ---- C16 ----
\* C16: the ring never holds more than cap messages, and cap, chosen at
\* creation, never changes.
C16_BoundedByCapacity ==
    /\ [](/\ cap \in 1..MaxCap
          /\ DOMAIN buf = 0..(cap - 1)
          /\ OccupiedLen(head, tail, cap) \in 0..cap
          /\ Len(RingContents) \in 0..cap)
    /\ [][cap' = cap]_vars

\* the ring was filled again after a message had been taken out
C16_Witness ==
    /\ cap = 2
    /\ Len(RingContents) = cap
    /\ Received # <<>>

\* ---- C17 ----
\* C17: a try_send that returns Full or Disconnected and a try_recv that
\* returns Empty or Disconnected leave the ring exactly as it was, and no step
\* of a try_send or a try_recv changes the close flag.
C17_FailedCallsChangeNothing ==
    [][/\ (/\ Len(sendLog') > Len(sendLog)
           /\ sendLog'[Len(sendLog')].tag \in {"Full", "Disconnected"})
            => ringVars' = ringVars
       /\ (/\ Len(recvLog') > Len(recvLog)
           /\ recvLog'[Len(recvLog')].tag \in {"Empty", "Disconnected"})
            => ringVars' = ringVars
       /\ (\/ sendLog' # sendLog
           \/ recvLog' # recvLog
           \/ nextMsg' # nextMsg
           \/ nrecv' # nrecv
           \/ lock' # lock
           \/ \E h \in SenderIds :
                pc[h] \in {"waiting", "entered", "loaded", "ret"}
                    /\ pc'[h] # pc[h]
           \/ rpc \in {"entered", "loaded"} /\ rpc' # rpc)
            => is_closed' = is_closed]_vars

C17_Witness ==
    /\ RingContents # <<>>
    /\ \E i \in 1..Len(sendLog) : sendLog[i].tag = "Full"
    /\ \E i \in 1..Len(sendLog) : sendLog[i].tag = "Disconnected"
    /\ \E j \in 1..Len(recvLog) : recvLog[j].tag = "Empty"

\* ---- C19 ----
\* C19 as stated: the flag never becomes true between a try_send's read of it
\* and its push, so nothing is pushed while the flag is true.
C19_NoPushAfterClose ==
    \A h \in SenderIds : pc[h] = "loaded" => ~is_closed

\* C19 (amended): a try_send that read the flag before the receiver's drop
\* may still push, and return Ok, after the drop has set the flag; a push with
\* the flag already true happens only in a call that started before the
\* receiver was dropped, and a call that started after it never pushes.
C19_PushAfterCloseOnlyIfStartedBefore ==
    /\ \A h \in SenderIds :
         (pc[h] = "loaded" /\ is_closed) => (ReceiverDropped /\ ~late[h])
    /\ \A i \in 1..Len(sendLog) : sendLog[i].tag = "Ok" => ~sendLog[i].late

\* the receiver was dropped between a clone's read of the flag and its push
C19_Witness ==
    /\ ReceiverDropped
    /\ is_closed
    /\ \E h \in CloneIds : pc[h] = "loaded" /\ ~late[h]
\* ---- C18 ----
Started(h) == pc[h] \in {"waiting", "entered", "loaded", "ret"}

\* C18 as stated: under weak fairness of every clone's steps, every started
\* MicroBlockingSender::try_send eventually returns.
C18_EveryAdapterSendReturns ==
    \A h \in CloneIds : Started(h) ~> (pc[h] = "idle")

\* C18 (amended): under weak fairness of every clone's steps, a clone that
\* holds the mutex releases it after one delegated try_send and returns, and
\* no reachable state is a deadlock (a waiting clone always sees the mutex
\* free or held by a clone that can step); a waiting clone returns when the
\* mutex is also handed over fairly (strong fairness of the acquisition).
C18_HolderReleasesNoDeadlock ==
    /\ \A h \in CloneIds : (lock = h) ~> (lock = NoHolder /\ pc[h] = "idle")
    /\ [](\A h \in CloneIds :
            pc[h] = "waiting" =>
                \/ lock = NoHolder
                \/ lock \in CloneIds /\ pc[lock] \in {"entered", "loaded", "ret"})
    /\ (\A h \in CloneIds : SF_vars(AdapterLock(h))) =>
            \A h \in CloneIds : Started(h) ~> (pc[h] = "idle")

\* a clone waits for the mutex while another one, sending again, holds it
C18_Witness ==
    /\ nextMsg > MaxMsgs
    /\ Len(sendLog) = MaxMsgs
    /\ \E h \in CloneIds : pc[h] = "waiting"
    /\ \E h \in CloneIds : lock = h /\ pc[h] = "ret" /\ msg[h] = MaxMsgs
\* ---- C20 ----
\* C20: when neither side is ever dropped and the receiver keeps calling
\* try_recv, every message whose try_send returned Ok is eventually returned
\* by a try_recv as Ok(message).
C20_SentIsEventuallyReceived ==
    \A m \in 1..MaxMsgs :
        (m \in Range(SentOk)) ~> (m \in Range(Received))

\* the receiver's counted calls all found the ring empty; the messages sent
\* after them were taken by its further calls
C20_Witness ==
    /\ nrecv = MaxRecvs
    /\ Len(recvLog) > MaxRecvs
    /\ \A j \in 1..MaxRecvs : recvLog[j].tag = "Empty"
    /\ Len(SentOk) >= 2
    /\ Received = SentOk
====
